---- MODULE Spec2Model ----
(***************************************************************************)
(* A model of ntpd/refclock_javad.c, the Javad GREIS reference clock       *)
(* driver: the line scanner javad_receive, the checksum javad_cksum, the   *)
(* binary frame scanner javad_recv and the GPS week tracking of            *)
(* javad_parse_t and javad_parse_gpos.                                     *)
(*                                                                         *)
(* Each part of the driver has its own specification over the shared       *)
(* variables; the variables a specification does not use stay at their     *)
(* initial values.                                                         *)
(***************************************************************************)
EXTENDS Integers, Sequences, FiniteSets, TLC

VARIABLES
    ibuf,       \* instance->ibuf and the alignment padding that follows it
    ssize,      \* instance->ssize
    rbuf,       \* rbufp->recv_buffer of the last javad_receive call
    out,        \* the line the last javad_receive call printed, <<>> if none
    hiwr,       \* highest ibuf index the last append wrote (its NUL), -1 if none
    aborted,    \* javad_receive reached abort()
    cin,        \* SpecChunk: the byte sequence both instances are fed
    one,        \* SpecChunk: the instance fed cin in a single call
    many,       \* SpecChunk: the instance fed cin one byte per call
    cpos,       \* SpecChunk: the number of bytes of cin fed to "many"
    bigendian,  \* the build defines WORDS_BIGENDIAN
    ckwords,    \* SpecCksum: the u_short array given to javad_cksum
    cksum,      \* SpecCksum: javad_cksum of the sequence drawn, -1 before
    ckappend,   \* SpecCksum: how the checksum was appended to ckwords
    ckagain,    \* SpecCksum: javad_cksum of the extended array, -1 before
    sbuf,       \* SpecRecv: the bytes of the binary input buffer
    ret,        \* SpecRecv: what the last javad_recv call returned, -1 before
    phase,      \* SpecRecv: what has been done to the buffered frame
    sold,       \* the buffer and its size as the last javad_recv call found them
    gweek,      \* instance->gweek
    gpos_gweek, \* instance->gpos_gweek
    gpos_sweek, \* instance->gpos_sweek
    lastsweek,  \* instance->lastsweek
    timecode,   \* instance->timecode, as two 16-bit halves
    tmsg,       \* SpecTime: the message of the last parse call
    tret,       \* SpecTime: the error string the last parse call returned
    tlog,       \* SpecTime: what the last parse call logged with javad_debug
    treport,    \* SpecTime: the last parse call reported CEVNT_BADTIME
    nroll,      \* SpecTime: the week rollovers counted so far
    tprev,      \* SpecTime: the tracker as the last parse call found it
    roll,       \* SpecRoll: the pulses of the rollover stream seen so far
    e2e,        \* SpecTime: the pulses that followed a first position message
    alloc,      \* the instance: "none" before javad_start, "live", "freed"
    instance,   \* the PPS and fudge fields of struct instance
    pp,         \* the fields of the peer's struct refclockproc the driver uses
    kern,       \* what the process holds: the clock descriptor, the PPS source
    written,    \* the write calls of the last javad_config, in order
    sret,       \* the last driver entry point called and what it returned
    pprev       \* SpecPps: the fields javad_pps reads as they were before the
                \* last javad_pps, its fetch and return value, whether the
                \* fetch repeated the one before, and the mode and the return
                \* value of that one

rxvars    == <<ibuf, ssize, rbuf, out, hiwr, aborted>>
chunkvars == <<cin, one, many, cpos>>
ckvars    == <<ckwords, cksum, ckappend, ckagain>>
recvvars  == <<sbuf, ret, phase, sold>>
trackvars == <<gweek, gpos_gweek, gpos_sweek, lastsweek, timecode>>
timevars  == <<trackvars, tmsg, tret, tlog, treport, nroll, tprev, roll, e2e>>
sessvars  == <<alloc, instance, pp, kern, written, sret, pprev>>
vars      == <<rxvars, chunkvars, bigendian, ckvars, recvvars, timevars, sessvars>>

(***************************************************************************)
(* Bytes                                                                   *)
(***************************************************************************)
NUL == 0
CR  == 13
LF  == 10

\* The bytes the receiver is modelled to send on the line channel: the three
\* bytes the driver tells apart and one letter, 'a'.
Letter  == CHOOSE b \in {97} : TRUE
RxBytes == {NUL, CR, LF, Letter}

(***************************************************************************)
(* struct instance: char ibuf[512]; int ssize;                             *)
(* ibuf starts one byte after a 4-aligned offset (it follows the u_char    *)
(* sloppyclockflag) and int ssize follows it, so IBUFPAD bytes of padding  *)
(* lie between the two.  IBUFSIZE is sizeof(instance->ibuf), scaled down.  *)
(***************************************************************************)
IBUFSIZE == 4
IBUFPAD  == 3
MemTop   == IBUFSIZE + IBUFPAD - 1

\* emalloc_zero(sizeof(*instance)) followed by javad_config's ssize = 0
ZeroMem == [i \in 0..MemTop |-> NUL]

(***************************************************************************)
(* javad_receive, lines 542-548: the clamp and the append.                 *)
(***************************************************************************)
\* sizeof(instance->ibuf) - (instance->ssize - 1): size_t arithmetic, so a
\* negative difference wraps to a huge value and clamps nothing.
ClampLen(len, ss) ==
    IF IBUFSIZE - (ss - 1) >= 0 /\ len > IBUFSIZE - (ss - 1)
    THEN IBUFSIZE - (ss - 1)
    ELSE len

\* strlen() of the first n bytes of s: the bytes before the first NUL
RECURSIVE StrNLen(_, _)
StrNLen(s, n) ==
    IF n = 0 \/ s = <<>> \/ Head(s) = NUL THEN 0
    ELSE 1 + StrNLen(Tail(s), n - 1)

\* strlcpy(ibuf + ss, cp, len + 1): copies at most len bytes of cp, stops at
\* a NUL in cp, and always writes a terminating NUL.
Strlcpy(mem, ss, cp, len) ==
    LET k == StrNLen(cp, len)
    IN  [i \in DOMAIN mem |->
            IF i >= ss /\ i < ss + k THEN cp[i - ss + 1]
            ELSE IF i = ss + k THEN NUL
            ELSE mem[i]]

\* The search for CR LF run over the whole buffer, whatever ssize is.
RECURSIVE ScanEol_unbounded(_, _, _)
ScanEol_unbounded(mem, i, len) ==
    IF i + 1 > IBUFSIZE - 1 THEN 0
    ELSE IF mem[i] = CR /\ mem[i + 1] = LF THEN i + 2
    ELSE ScanEol_unbounded(mem, i + 1, len)

(***************************************************************************)
(* javad_receive, lines 550-560: the search for CR LF.  Returns the index  *)
(* one past the LF (eol - ibuf), or 0 when eol stays NULL.                 *)
(***************************************************************************)
RECURSIVE ScanEol(_, _, _)
ScanEol(mem, i, len) ==
    IF len < 2 THEN 0
    ELSE IF mem[i] = CR /\ mem[i + 1] = LF THEN i + 2
    ELSE ScanEol(mem, i + 1, len - 1)

(***************************************************************************)
(* javad_receive, lines 589-590: memcpy(ibuf, ibuf + len, ssize + 1).      *)
(* Source and destination overlap, which memcpy leaves undefined: a copy   *)
(* that runs forward gives the bytes of a memmove, a copy that runs        *)
(* backward re-reads bytes it has already overwritten.  The copy also      *)
(* reads past the end of the instance; those bytes are "junk".             *)
(***************************************************************************)
SrcByte(mem, j, junk) == IF j \in DOMAIN mem THEN mem[j] ELSE junk

RECURSIVE BackByte(_, _, _, _, _)
BackByte(mem, i, len, n, junk) ==
    IF i + len < n THEN BackByte(mem, i + len, len, n, junk)
    ELSE SrcByte(mem, i + len, junk)

\* n bytes from mem + len to mem
Memcpy(mem, len, n, backward, junk) ==
    [i \in DOMAIN mem |->
        IF i >= n THEN mem[i]
        ELSE IF backward THEN BackByte(mem, i, len, n, junk)
        ELSE SrcByte(mem, i + len, junk)]

(***************************************************************************)
(* javad_receive, lines 515-597, on the instance (mem, ss) with the        *)
(* received bytes cp.  "backward" and "junk" are the outcomes of the       *)
(* overlapping memcpy.                                                     *)
(***************************************************************************)
javad_receive(mem, ss, cp, backward, junk) ==
    LET len  == ClampLen(Len(cp), ss)
        mem1 == Strlcpy(mem, ss, cp, len)
        ss1  == ss + len
        top  == ss + StrNLen(cp, len)
        eol  == ScanEol(mem1, 0, ss1)
    IN  IF eol = 0
        THEN [ibuf |-> mem1, ssize |-> ss1, out |-> <<>>, hiwr |-> top,
              aborted |-> FALSE]
        ELSE LET line == [j \in 1..eol |-> mem1[j - 1]]
             IN  IF ss1 = eol
                 THEN [ibuf |-> [mem1 EXCEPT ![0] = NUL], ssize |-> 0,
                       out |-> line, hiwr |-> top, aborted |-> FALSE]
                 ELSE IF ss1 > eol
                 THEN [ibuf |-> Memcpy(mem1, eol, ss1 + 1, backward, junk),
                       ssize |-> ss1 - eol,
                       out |-> line, hiwr |-> top, aborted |-> FALSE]
                 ELSE [ibuf |-> mem1, ssize |-> ss1, out |-> line,
                       hiwr |-> top, aborted |-> TRUE]

(***************************************************************************)
(* The deliveries of the serial line: every byte sequence of up to         *)
(* MaxChunk bytes, and a delivery longer than the whole buffer, alone or   *)
(* after one other byte.                                                   *)
(***************************************************************************)
MaxChunk == 2

SeqsUpTo(S, n) == UNION {[1..k -> S] : k \in 0..n}

Fill == [i \in 1..(IBUFSIZE + 2) |-> Letter]

Deliveries == SeqsUpTo(RxBytes, MaxChunk)
              \cup {s \o Fill : s \in SeqsUpTo(RxBytes, 1)}

\* Whether javad_receive reaches its memcpy on these inputs
Shifts(mem, ss, cp) ==
    LET len == ClampLen(Len(cp), ss)
        eol == ScanEol(Strlcpy(mem, ss, cp, len), 0, ss + len)
    IN  eol # 0 /\ ss + len > eol

\* The outcomes of the undefined memcpy: the direction of the copy and the
\* bytes read from beyond the instance.  Without a memcpy there is one.
Outcomes(mem, ss, cp) ==
    IF Shifts(mem, ss, cp) THEN BOOLEAN \X RxBytes ELSE {<<FALSE, NUL>>}

(***************************************************************************)
(* SpecRx: one instance, any sequence of deliveries.                       *)
(***************************************************************************)
ChunkIdle ==
    /\ cin = <<>>
    /\ one = [ibuf |-> ZeroMem, ssize |-> 0, lines |-> <<>>, fed |-> FALSE]
    /\ many = [ibuf |-> ZeroMem, ssize |-> 0, lines |-> <<>>, fed |-> FALSE]
    /\ cpos = 0

RxIdle ==
    /\ ibuf = ZeroMem
    /\ ssize = 0
    /\ rbuf = <<>>
    /\ out = <<>>
    /\ hiwr = -1
    /\ aborted = FALSE

CkIdle ==
    /\ ckwords = <<>>
    /\ cksum = -1
    /\ ckappend = "none"
    /\ ckagain = -1

RecvIdle ==
    /\ sbuf = <<>>
    /\ ret = -1
    /\ phase = "fresh"
    /\ sold = [buf |-> <<>>, size |-> 0]

\* One week's worth of seconds, 7 * 24 * 60 * 60
WEEKSECS == 604800

\* The tracker as javad_config leaves it, lines 284-288, with nothing parsed
TimeIdle ==
    /\ gweek = 0
    /\ gpos_gweek = 0
    /\ gpos_sweek = 0
    /\ lastsweek = 2 * WEEKSECS
    /\ timecode = [hi |-> 0, lo |-> 0]
    /\ tmsg = [kind |-> "none"]
    /\ tret = "NULL"
    /\ tlog = {}
    /\ treport = FALSE
    /\ nroll = 0
    /\ tprev = [gweek |-> 0, gpos_gweek |-> 0, gpos_sweek |-> 0,
                lastsweek |-> 2 * WEEKSECS, timecode |-> [hi |-> 0, lo |-> 0]]
    /\ roll = [n |-> 0, w |-> 0, warps |-> 0]
    /\ e2e = [stage |-> "start", n |-> 0, first |-> 0, warps |-> 0]

\* The zero values of emalloc_zero
ZeroTs   == [tv_sec |-> 0, tv_nsec |-> 0]
ZeroInfo == [assert_sequence |-> 0, assert_timestamp |-> ZeroTs,
             clear_sequence |-> 0, clear_timestamp |-> ZeroTs]
ZeroLfp  == [l_ui |-> [hi |-> 0, lo |-> 0], l_uf |-> [hi |-> 0, lo |-> 0]]
NoFlags  == [flag2 |-> FALSE, flag3 |-> FALSE]

\* The descriptor refclock_open returns
ClockFd == 3

\* The instance as emalloc_zero returns it
ZeroInstance ==
    [pps_handle |-> 0, mode |-> "none", assert |-> 0,
     sloppyclockflag |-> NoFlags, limit |-> 0,
     pps_info |-> ZeroInfo, ts |-> ZeroTs]

\* A session started without a PPS source, nothing polled yet
\* No javad_pps yet
NoPoll ==
    [pps_handle |-> 0, mode |-> "none", pps_info |-> ZeroInfo, ts |-> ZeroTs,
     lastrec |-> ZeroLfp, fetched |-> [ok |-> FALSE, info |-> ZeroInfo],
     ret |-> 1, again |-> FALSE, ret0 |-> 1, mode0 |-> "none",
     polled |-> FALSE]

SessIdle ==
    /\ alloc = "live"
    /\ instance = [pps_handle |-> 0, mode |-> "none", assert |-> 1,
                   sloppyclockflag |-> NoFlags, limit |-> 0,
                   pps_info |-> ZeroInfo, ts |-> ZeroTs]
    /\ pp = [unitptr |-> TRUE, io_fd |-> ClockFd, sloppyclockflag |-> NoFlags,
             fudgetime2 |-> 0, lastrec |-> ZeroLfp]
    /\ kern = [fdopen |-> TRUE, pps_held |-> FALSE, pps_made |-> FALSE,
               pps_tried |-> TRUE]
    /\ written = <<>>
    /\ sret = [op |-> "none", ret |-> 0, cfg |-> -1]
    /\ pprev = NoPoll

InitRx ==
    /\ RxIdle /\ ChunkIdle /\ CkIdle /\ RecvIdle /\ TimeIdle /\ SessIdle
    /\ bigendian = FALSE

Receive ==
    /\ ~aborted
    /\ \E cp \in Deliveries :
       \E o \in Outcomes(ibuf, ssize, cp) :
         LET r == javad_receive(ibuf, ssize, cp, o[1], o[2])
         IN  /\ ibuf' = r.ibuf
             /\ ssize' = r.ssize
             /\ out' = r.out
             /\ hiwr' = r.hiwr
             /\ aborted' = r.aborted
             /\ rbuf' = cp
    /\ UNCHANGED <<chunkvars, bigendian, ckvars, recvvars, timevars, sessvars>>

NextRx == Receive

SpecRx == InitRx /\ [][NextRx]_vars

(***************************************************************************)
(* SpecChunk: the same bytes delivered to two instances, to "one" in a     *)
(* single javad_receive call and to "many" one byte per call.  "lines" is  *)
(* the sequence of lines the instance has printed.  The bytes are those of *)
(* the ASCII responses of the line channel, which hold no NUL.             *)
(***************************************************************************)
MaxInput == 4

LineBytes == RxBytes \ {NUL}

Fed(inst, cp, o) ==
    LET r == javad_receive(inst.ibuf, inst.ssize, cp, o[1], o[2])
    IN  [ibuf |-> r.ibuf, ssize |-> r.ssize,
         lines |-> IF r.out = <<>> THEN inst.lines ELSE Append(inst.lines, r.out),
         fed |-> TRUE]

InitChunk ==
    /\ RxIdle /\ CkIdle /\ RecvIdle /\ TimeIdle /\ SessIdle /\ bigendian = FALSE
    /\ cin \in SeqsUpTo(LineBytes, MaxInput)
    /\ one = [ibuf |-> ZeroMem, ssize |-> 0, lines |-> <<>>, fed |-> FALSE]
    /\ many = [ibuf |-> ZeroMem, ssize |-> 0, lines |-> <<>>, fed |-> FALSE]
    /\ cpos = 0

FeedAll ==
    /\ ~one.fed
    /\ \E o \in Outcomes(one.ibuf, one.ssize, cin) : one' = Fed(one, cin, o)
    /\ UNCHANGED <<cin, many, cpos, rxvars, bigendian, ckvars, recvvars, timevars, sessvars>>

FeedByte ==
    /\ cpos < Len(cin)
    /\ LET cp == <<cin[cpos + 1]>>
       IN  \E o \in Outcomes(many.ibuf, many.ssize, cp) : many' = Fed(many, cp, o)
    /\ cpos' = cpos + 1
    /\ UNCHANGED <<cin, one, rxvars, bigendian, ckvars, recvvars, timevars, sessvars>>

NextChunk == FeedAll \/ FeedByte

SpecChunk == InitChunk /\ [][NextChunk]_vars

(***************************************************************************)
(* Claims about the line scanner                                           *)
(***************************************************************************)

\* C1: chunking invariance.  Once the whole byte sequence has been delivered
\* to both instances, the one that got it in a single call and the one that
\* got it one byte per call have printed the same sequence of lines.
C1_ChunkingInvariance ==
    (one.fed /\ cpos = Len(cin)) => one.lines = many.lines

\* C2: the input buffer is bounded.  After any sequence of deliveries ssize
\* is at most sizeof(ibuf), and the last append, its terminating NUL
\* included, wrote only inside ibuf.
C2_InputBufferBounded ==
    ssize <= IBUFSIZE /\ hiwr < IBUFSIZE

\* A complete line, "a" CR LF
OneLine == <<Letter, CR, LF>>

\* Delivering OneLine up to n times from (mem, ss) prints a line in one of
\* the calls, for some outcome of the memcpy
RECURSIVE EmitsWithin(_, _, _)
EmitsWithin(mem, ss, n) ==
    /\ n > 0
    /\ \E o \in Outcomes(mem, ss, OneLine) :
         LET r == javad_receive(mem, ss, OneLine, o[1], o[2])
         IN  r.out # <<>> \/ EmitsWithin(r.ibuf, r.ssize, n - 1)

\* C3: overflow is a drop, not a stuck condition.  In every state the
\* scanner can reach, overflowed or not, complete CR LF-terminated lines
\* delivered from then on lead to a line being emitted: no state discards
\* all further input.
C3_OverflowNotStuck ==
    EmitsWithin(ibuf, ssize, IBUFSIZE + 2)

\* The buffer as javad_receive sees it after appending the delivery rbuf'
\* to the buffer of the state before the call
Appended == Strlcpy(ibuf, ssize, rbuf', ClampLen(Len(rbuf'), ssize))
AppendedSize == ssize + ClampLen(Len(rbuf'), ssize)

HasCRLF(mem, n) == \E i \in 0..(n - 2) : mem[i] = CR /\ mem[i + 1] = LF
FirstCRLF(mem, n) ==
    CHOOSE i \in 0..(n - 2) :
        /\ mem[i] = CR /\ mem[i + 1] = LF
        /\ \A j \in 0..(i - 1) : ~(mem[j] = CR /\ mem[j + 1] = LF)

\* C4: when the buffer holds a CR LF after the append, the call emits the
\* bytes before the first CR LF, without the terminator, as one line; the
\* buffer then holds the bytes that followed the terminator, in order, at
\* its front, and ssize is smaller by the line length plus 2.
C4_LineAndLeftovers ==
    [][HasCRLF(Appended, AppendedSize) =>
        LET i == FirstCRLF(Appended, AppendedSize)
        IN  /\ out' = [j \in 1..i |-> Appended[j - 1]]
            /\ ssize' = AppendedSize - (i + 2)
            /\ \A j \in 0..(ssize' - 1) : ibuf'[j] = Appended[i + 2 + j]]_vars

(***************************************************************************)
(* getshort and putshort, lines 47-53: the identity on a little-endian     *)
(* host, a swap of the two bytes where WORDS_BIGENDIAN is defined.         *)
(***************************************************************************)
USHORT == 65536

Swap16(s) == ((s % 256) * 256) + ((s \div 256) % 256)

getshort(s) == IF bigendian THEN Swap16(s) ELSE s % USHORT
putshort(s) == IF bigendian THEN Swap16(s) ELSE s % USHORT

(***************************************************************************)
(* javad_cksum, lines 904-916: the u_short sum of len shorts of sp, each   *)
(* through getshort, negated.                                              *)
(***************************************************************************)
RECURSIVE SumShorts(_, _, _)
SumShorts(sp, len, sum) ==
    IF len = 0 THEN sum
    ELSE SumShorts(Tail(sp), len - 1, (sum + getshort(Head(sp))) % USHORT)

\* The loop with its bound off by one, while (--len > 0): the last short
\* is left out of the sum.
javad_cksum_short(sp, len) ==
    LET sum == SumShorts(sp, IF len > 0 THEN len - 1 ELSE 0, 0)
    IN  (((USHORT - 1) - sum) + 1) % USHORT

\* return (~sum + 1), converted to u_short
javad_cksum(sp, len) ==
    LET sum == SumShorts(sp, len, 0)
    IN  (((USHORT - 1) - sum) + 1) % USHORT

(***************************************************************************)
(* SpecCksum: javad_cksum applied to a drawn u_short array, the checksum   *)
(* appended to the array, and javad_cksum applied again.  The checksum is  *)
(* appended either as the value javad_cksum returned ("value") or as the   *)
(* short a sender stores in a message, putshort of it ("wire").            *)
(***************************************************************************)
MaxWords == 3

WordVals == {0, 1, 255, 256, 32768, 65535}

InitCksum ==
    /\ RxIdle /\ ChunkIdle /\ RecvIdle /\ TimeIdle /\ SessIdle
    /\ bigendian \in BOOLEAN
    /\ ckwords \in SeqsUpTo(WordVals, MaxWords)
    /\ cksum = -1
    /\ ckappend = "none"
    /\ ckagain = -1

Checksum ==
    /\ cksum = -1
    /\ cksum' = javad_cksum(ckwords, Len(ckwords))
    /\ UNCHANGED <<ckwords, ckappend, ckagain, rxvars, chunkvars, bigendian, recvvars, timevars, sessvars>>

AppendValue ==
    /\ cksum # -1 /\ ckappend = "none"
    /\ ckwords' = Append(ckwords, cksum)
    /\ ckappend' = "value"
    /\ UNCHANGED <<cksum, ckagain, rxvars, chunkvars, bigendian, recvvars, timevars, sessvars>>

AppendWire ==
    /\ cksum # -1 /\ ckappend = "none"
    /\ ckwords' = Append(ckwords, putshort(cksum))
    /\ ckappend' = "wire"
    /\ UNCHANGED <<cksum, ckagain, rxvars, chunkvars, bigendian, recvvars, timevars, sessvars>>

ChecksumAgain ==
    /\ ckappend # "none" /\ ckagain = -1
    /\ ckagain' = javad_cksum(ckwords, Len(ckwords))
    /\ UNCHANGED <<ckwords, cksum, ckappend, rxvars, chunkvars, bigendian, recvvars, timevars, sessvars>>

NextCksum == Checksum \/ AppendValue \/ AppendWire \/ ChecksumAgain

SpecCksum == InitCksum /\ [][NextCksum]_vars

(***************************************************************************)
(* Claims about the checksum                                               *)
(***************************************************************************)

\* C5 as stated: for every sequence of 16-bit words, javad_cksum of the
\* sequence followed by its own javad_cksum value is 0.
C5_SelfCancelValue ==
    (ckappend = "value" /\ ckagain # -1) => ckagain = 0

\* C5 as amended: for every sequence of 16-bit words, javad_cksum of the
\* sequence followed by its checksum word, that is putshort of its
\* javad_cksum value (the value itself on a little-endian host), is 0.
C5_SelfCancelWire ==
    (ckappend = "wire" /\ ckagain # -1) => ckagain = 0

\* A checksum word appended to three shorts whose sum is not 0, on a
\* big-endian host, and the second checksum taken.
C5_Witness ==
    /\ ckappend = "wire" /\ ckagain = 0
    /\ bigendian
    /\ Len(ckwords) = MaxWords + 1
    /\ cksum \notin {0, Swap16(cksum)}

(***************************************************************************)
(* The binary frame: struct jheader is six shorts (sync, id, len, reqid,   *)
(* flags, hsum, as the initializers of reqmsg and canmsg list them),       *)
(* followed, when len > 0, by len payload shorts and their checksum.       *)
(***************************************************************************)
JAVAD_SYNC == 33279
HdrShorts  == 6
HdrBytes   == 2 * HdrShorts

\* The u_short at short index k of the byte buffer buf, as the host loads it
RawShort(buf, k) ==
    IF bigendian THEN (buf[2 * k] * 256) + buf[(2 * k) + 1]
    ELSE buf[2 * k] + (buf[(2 * k) + 1] * 256)

\* The n shorts of buf from short index k on
ShortsAt(buf, k, n) == [j \in 1..n |-> RawShort(buf, k + j - 1)]

(***************************************************************************)
(* javad_recv, lines 938-960: the search for the sync short.  From byte    *)
(* index p with n bytes left; returns <<p, n>> where the loop stops.       *)
(***************************************************************************)
RECURSIVE SyncScan(_, _, _)
SyncScan(buf, p, n) ==
    IF n < 2 THEN <<p, n>>
    ELSE IF buf[p] # JAVAD_SYNC % 256 THEN SyncScan(buf, p + 1, n - 1)
    ELSE IF buf[p + 1] = (JAVAD_SYNC \div 256) % 256 THEN <<p, n>>
    ELSE SyncScan(buf, p + 2, n - 2)

(***************************************************************************)
(* javad_recv, lines 973-1000: the header checksum, the payload length and *)
(* the payload checksum, on a buffer whose first short is the sync short.  *)
(***************************************************************************)
\* The payload check left out: any payload is accepted.
CheckFrame_nopayload(buf, size) ==
    LET cc == HdrBytes
        len == getshort(RawShort(buf, 2))
        n == (len + 1) * 2
    IN  IF javad_cksum(ShortsAt(buf, 0, HdrShorts - 1), HdrShorts - 1)
               # getshort(RawShort(buf, HdrShorts - 1))
        THEN [ret |-> 0, sbuf |-> buf, ssize |-> 0]
        ELSE IF len > 0
        THEN IF size < cc + n
             THEN [ret |-> 0, sbuf |-> buf, ssize |-> size]
             ELSE [ret |-> cc + n, sbuf |-> buf, ssize |-> size]
        ELSE [ret |-> cc, sbuf |-> buf, ssize |-> size]

CheckFrame(buf, size) ==
    LET cc == HdrBytes
        len == getshort(RawShort(buf, 2))
        n == (len + 1) * 2
    IN  IF javad_cksum(ShortsAt(buf, 0, HdrShorts - 1), HdrShorts - 1)
               # getshort(RawShort(buf, HdrShorts - 1))
        THEN [ret |-> 0, sbuf |-> buf, ssize |-> 0]
        ELSE IF len > 0
        THEN IF size < cc + n
             THEN [ret |-> 0, sbuf |-> buf, ssize |-> size]
             ELSE IF javad_cksum(ShortsAt(buf, HdrShorts, len), len)
                        # getshort(RawShort(buf, HdrShorts + len))
             THEN [ret |-> 0, sbuf |-> buf, ssize |-> 0]
             ELSE [ret |-> cc + n, sbuf |-> buf, ssize |-> size]
        ELSE [ret |-> cc, sbuf |-> buf, ssize |-> size]

(***************************************************************************)
(* javad_recv, lines 919-1001.  The shuffle memcpy(sp, bp, n) of line 966  *)
(* overlaps its source whenever fewer bytes are skipped than are kept;     *)
(* "backward" is the direction such a copy runs in.                        *)
(***************************************************************************)
javad_recv(buf, size, backward) ==
    IF size < HdrBytes THEN [ret |-> 0, sbuf |-> buf, ssize |-> size]
    ELSE IF getshort(RawShort(buf, 0)) # JAVAD_SYNC
    THEN LET pn == SyncScan(buf, 0, size)
             bp == pn[1]
             n == pn[2]
             buf1 == IF n > 0 THEN Memcpy(buf, bp, n, backward, 0) ELSE buf
         IN  IF n < HdrBytes \/ RawShort(buf1, 0) # JAVAD_SYNC
             THEN [ret |-> 0, sbuf |-> buf1, ssize |-> n]
             ELSE CheckFrame(buf1, n)
    ELSE CheckFrame(buf, size)

\* Whether the shuffle of javad_recv copies between overlapping ranges
Overlaps(buf, size) ==
    /\ size >= HdrBytes
    /\ getshort(RawShort(buf, 0)) # JAVAD_SYNC
    /\ LET pn == SyncScan(buf, 0, size) IN pn[2] > pn[1]

(***************************************************************************)
(* The frames of the receiver: the header and the payload shorts in wire   *)
(* order (low byte first), each followed by its checksum.                  *)
(***************************************************************************)
MaxPayload == 2

PayVals == {0, 255, 65535}

WireBytes(v) == <<v % 256, (v \div 256) % 256>>

RECURSIVE Flatten(_)
Flatten(ws) == IF ws = <<>> THEN <<>> ELSE WireBytes(Head(ws)) \o Flatten(Tail(ws))

\* A frame with correct checksums, as a byte sequence
MakeFrame(id, payload) ==
    LET hdr  == <<JAVAD_SYNC, id, Len(payload), 0, 0>>
        hsum == javad_cksum([j \in 1..Len(hdr) |-> putshort(hdr[j])], Len(hdr))
        psum == javad_cksum([j \in 1..Len(payload) |-> putshort(payload[j])],
                            Len(payload))
    IN  Flatten(hdr \o <<hsum>>)
        \o (IF payload = <<>> THEN <<>> ELSE Flatten(payload \o <<psum>>))

\* A byte sequence as a buffer indexed from 0
AsBuf(bytes) == [i \in 0..(Len(bytes) - 1) |-> bytes[i + 1]]

\* What the buffer may hold: a frame, alone or after one stray byte
Buffered ==
    {AsBuf(g \o MakeFrame(1, pl)) :
        g \in {<<>>, <<0>>}, pl \in SeqsUpTo(PayVals, MaxPayload)}

\* The byte indexes of the payload shorts of the frame at the buffer front
PayloadBytes(buf) ==
    HdrBytes .. (HdrBytes + (2 * getshort(RawShort(buf, 2))) - 1)

(***************************************************************************)
(* SpecRecv: javad_recv applied to a buffered frame, one byte of the       *)
(* accepted frame's payload changed, and javad_recv applied again.         *)
(***************************************************************************)
InitRecv ==
    /\ ibuf = ZeroMem /\ rbuf = <<>> /\ out = <<>> /\ hiwr = -1 /\ aborted = FALSE
    /\ ChunkIdle /\ CkIdle /\ TimeIdle /\ SessIdle
    /\ bigendian \in BOOLEAN
    /\ sbuf \in Buffered
    /\ ssize = Cardinality(DOMAIN sbuf)
    /\ ret = -1
    /\ phase = "fresh"
    /\ sold = [buf |-> <<>>, size |-> 0]

Recv ==
    /\ phase \in {"fresh", "corrupted"}
    /\ \E backward \in (IF Overlaps(sbuf, ssize) THEN BOOLEAN ELSE {FALSE}) :
         LET r == javad_recv(sbuf, ssize, backward)
         IN  /\ sbuf' = r.sbuf
             /\ ssize' = r.ssize
             /\ ret' = r.ret
             /\ phase' = IF phase = "corrupted" THEN "rechecked"
                          ELSE IF r.ret > 0 THEN "accepted" ELSE "rejected"
             /\ sold' = [buf |-> sbuf, size |-> ssize]
    /\ UNCHANGED <<ibuf, rbuf, out, hiwr, aborted, chunkvars, bigendian, ckvars,
                   timevars, sessvars>>

Corrupt ==
    /\ phase = "accepted"
    /\ \E i \in PayloadBytes(sbuf), v \in 0..255 :
         /\ v # sbuf[i]
         /\ sbuf' = [sbuf EXCEPT ![i] = v]
    /\ phase' = "corrupted"
    /\ UNCHANGED <<ssize, ret, sold, ibuf, rbuf, out, hiwr, aborted, chunkvars,
                   bigendian, ckvars, timevars, sessvars>>

NextRecv == Recv \/ Corrupt

SpecRecv == InitRecv /\ [][NextRecv]_vars

(***************************************************************************)
(* Claims about the binary frame scanner                                   *)
(***************************************************************************)

\* C6: after any single byte of the payload of an accepted, fully buffered
\* frame with payload_length > 0 has been changed to another value,
\* javad_recv returns 0 and has flushed the buffer (ssize = 0): the
\* corrupted frame is never accepted.
C6_CorruptPayloadFlushed ==
    phase = "rechecked" => (ret = 0 /\ ssize = 0)

\* A frame of two payload shorts that was accepted, had a payload byte
\* changed and was given to javad_recv again.
C6_Witness ==
    /\ phase = "rechecked"
    /\ getshort(RawShort(sbuf, 2)) = MaxPayload
    /\ ret = 0

(***************************************************************************)
(* GPS week tracking: javad_parse_t and javad_parse_gpos.                  *)
(***************************************************************************)
\* Unix timestamp for the GPS epoch: January 6, 1980
GPS_EPOCH == 315964800

\* The bits of jp->flags
JAVAD_O_PULSE_VALID == 1
JAVAD_O_PULSE_UTC   == 2

\* DS2UI(p): (getshort((p)[1]) << 16) | getshort((p)[0])
DS2UI(p) == (getshort(p[2]) * USHORT) + getshort(p[1])

\* A number as two 16-bit halves; hi is not bounded
WideOf(n) == [hi |-> n \div USHORT, lo |-> n % USHORT]

\* GPS_EPOCH + (gw * WEEKSECS) + sw as an integer, in halves
TimeSum(gw, sw) ==
    LET e  == WideOf(GPS_EPOCH)
        pl == gw * (WEEKSECS % USHORT)
        ph == (gw * (WEEKSECS \div USHORT)) + (pl \div USHORT)
        c  == WideOf(sw)
        lo == e.lo + (pl % USHORT) + c.lo
    IN  [hi |-> e.hi + ph + c.hi + (lo \div USHORT), lo |-> lo % USHORT]

\* The same sum in the u_int arithmetic of line 682: modulo 2^32
Timecode(gw, sw) ==
    LET t == TimeSum(gw, sw) IN [hi |-> t.hi % USHORT, lo |-> t.lo]

(***************************************************************************)
(* javad_parse_t, lines 628-653: the GPS week of this pulse.               *)
(***************************************************************************)
\* The two comparisons of the anchor with the pulse exchanged.
ResolveWeek_swapped(st, sweek) ==
    IF st.gweek = 0
    THEN IF st.gpos_sweek >= sweek
         THEN IF st.gpos_sweek - sweek > WEEKSECS \div 2
              THEN st.gpos_gweek - 1 ELSE st.gpos_gweek
         ELSE IF sweek - st.gpos_sweek > WEEKSECS \div 2
              THEN st.gpos_gweek + 1 ELSE st.gpos_gweek
    ELSE IF sweek = 0 /\ st.lastsweek = WEEKSECS - 1
         THEN st.gweek + 1 ELSE st.gweek

\* The rollover counted down.
ResolveWeek_rollback(st, sweek) ==
    IF st.gweek = 0
    THEN IF st.gpos_sweek >= sweek
         THEN IF st.gpos_sweek - sweek > WEEKSECS \div 2
              THEN st.gpos_gweek + 1 ELSE st.gpos_gweek
         ELSE IF sweek - st.gpos_sweek > WEEKSECS \div 2
              THEN st.gpos_gweek - 1 ELSE st.gpos_gweek
    ELSE IF sweek = 0 /\ st.lastsweek = WEEKSECS - 1
         THEN st.gweek - 1 ELSE st.gweek

\* The rollover never counted.
ResolveWeek_norollover(st, sweek) ==
    IF st.gweek = 0
    THEN IF st.gpos_sweek >= sweek
         THEN IF st.gpos_sweek - sweek > WEEKSECS \div 2
              THEN st.gpos_gweek + 1 ELSE st.gpos_gweek
         ELSE IF sweek - st.gpos_sweek > WEEKSECS \div 2
              THEN st.gpos_gweek - 1 ELSE st.gpos_gweek
    ELSE st.gweek

\* The anchor never adopted.
ResolveWeek_noanchor(st, sweek) ==
    IF sweek = 0 /\ st.lastsweek = WEEKSECS - 1
    THEN st.gweek + 1 ELSE st.gweek

ResolveWeek(st, sweek) ==
    IF st.gweek = 0
    THEN IF st.gpos_sweek >= sweek
         THEN IF st.gpos_sweek - sweek > WEEKSECS \div 2
              THEN st.gpos_gweek + 1 ELSE st.gpos_gweek
         ELSE IF sweek - st.gpos_sweek > WEEKSECS \div 2
              THEN st.gpos_gweek - 1 ELSE st.gpos_gweek
    ELSE IF sweek = 0 /\ st.lastsweek = WEEKSECS - 1
         THEN st.gweek + 1 ELSE st.gweek

(***************************************************************************)
(* javad_parse_t, lines 655-676: what is logged about the step from        *)
(* lastsweek to sweek.                                                     *)
(***************************************************************************)
\* The rollover exemption left out.
WarpLog_norollover(last, sweek) ==
    IF last = sweek THEN {"not incrementing"}
    ELSE IF last # 2 * WEEKSECS /\ last + 1 # sweek
    THEN {"jumped"}
    ELSE {}

WarpLog(last, sweek) ==
    IF last = sweek THEN {"not incrementing"}
    ELSE IF /\ last # 2 * WEEKSECS
            /\ last + 1 # sweek
            /\ ~(sweek = 0 /\ last = WEEKSECS - 1)
    THEN {"jumped"}
    ELSE {}

\* javad_parse_t without the return of line 630: the pulse is handled with
\* the week 0.
javad_parse_t_nodrop(st, jp) ==
    LET sweek == DS2UI(jp.sweek) % WEEKSECS
        flags == getshort(jp.flags)
        gw    == ResolveWeek(st, sweek)
        log   == (IF st.gweek # 0 /\ gw # st.gweek THEN {"NEW gps week"} ELSE {})
                 \cup WarpLog(st.lastsweek, sweek)
        st1   == [gweek |-> gw, gpos_gweek |-> st.gpos_gweek,
                  gpos_sweek |-> st.gpos_sweek, lastsweek |-> sweek,
                  timecode |-> Timecode(gw, sweek)]
    IN  IF (flags \div JAVAD_O_PULSE_VALID) % 2 = 0
        THEN [st |-> st1, ret |-> "time mark not valid", log |-> log,
              report |-> TRUE]
        ELSE IF (flags \div JAVAD_O_PULSE_UTC) % 2 = 0
        THEN [st |-> st1, ret |-> "time mark not sync'ed to UTC", log |-> log,
              report |-> TRUE]
        ELSE [st |-> st1, ret |-> "NULL", log |-> log, report |-> FALSE]

\* javad_parse_t with the seconds of the pulse not reduced modulo WEEKSECS.
javad_parse_t_nomod(st, jp) ==
    LET sweek == DS2UI(jp.sweek)
        flags == getshort(jp.flags)
        gw    == ResolveWeek(st, sweek)
        log   == (IF st.gweek # 0 /\ gw # st.gweek THEN {"NEW gps week"} ELSE {})
                 \cup WarpLog(st.lastsweek, sweek)
        st1   == [gweek |-> gw, gpos_gweek |-> st.gpos_gweek,
                  gpos_sweek |-> st.gpos_sweek, lastsweek |-> sweek,
                  timecode |-> Timecode(gw, sweek)]
    IN  IF st.gweek = 0 /\ st.gpos_gweek = 0
        THEN [st |-> st, ret |-> "javad_parse_t: Unknown gweek", log |-> {},
              report |-> FALSE]
        ELSE IF (flags \div JAVAD_O_PULSE_VALID) % 2 = 0
        THEN [st |-> st1, ret |-> "time mark not valid", log |-> log,
              report |-> TRUE]
        ELSE IF (flags \div JAVAD_O_PULSE_UTC) % 2 = 0
        THEN [st |-> st1, ret |-> "time mark not sync'ed to UTC", log |-> log,
              report |-> TRUE]
        ELSE [st |-> st1, ret |-> "NULL", log |-> log, report |-> FALSE]

(***************************************************************************)
(* javad_parse_t, lines 601-721, on the tracker st and the pulse message   *)
(* jp.  Returns the tracker, the string returned, the log and whether      *)
(* CEVNT_BADTIME was reported.                                             *)
(***************************************************************************)
javad_parse_t(st, jp) ==
    LET sweek == DS2UI(jp.sweek) % WEEKSECS
        flags == getshort(jp.flags)
        gw    == ResolveWeek(st, sweek)
        log   == (IF st.gweek # 0 /\ gw # st.gweek THEN {"NEW gps week"} ELSE {})
                 \cup WarpLog(st.lastsweek, sweek)
        st1   == [gweek |-> gw, gpos_gweek |-> st.gpos_gweek,
                  gpos_sweek |-> st.gpos_sweek, lastsweek |-> sweek,
                  timecode |-> Timecode(gw, sweek)]
    IN  IF st.gweek = 0 /\ st.gpos_gweek = 0
        THEN [st |-> st, ret |-> "javad_parse_t: Unknown gweek", log |-> {},
              report |-> FALSE]
        ELSE IF (flags \div JAVAD_O_PULSE_VALID) % 2 = 0
        THEN [st |-> st1, ret |-> "time mark not valid", log |-> log,
              report |-> TRUE]
        ELSE IF (flags \div JAVAD_O_PULSE_UTC) % 2 = 0
        THEN [st |-> st1, ret |-> "time mark not sync'ed to UTC", log |-> log,
              report |-> TRUE]
        ELSE [st |-> st1, ret |-> "NULL", log |-> log, report |-> FALSE]

(***************************************************************************)
(* javad_parse_gpos, lines 723-759.                                        *)
(***************************************************************************)
\* The while loop of lines 745-748; returns <<gpos_gweek, gpos_sweek>>
RECURSIVE FoldWeek(_, _)
FoldWeek(gw, sw) ==
    IF sw >= WEEKSECS THEN FoldWeek(gw + 1, sw - WEEKSECS) ELSE <<gw, sw>>

javad_parse_gpos(st, jg) ==
    IF jg.navval # 0
    THEN [st |-> [st EXCEPT !.gpos_gweek = 0, !.gpos_sweek = 0],
          ret |-> "Navigation solution not valid", log |-> {},
          report |-> FALSE]
    ELSE LET f == FoldWeek(jg.gweek, DS2UI(jg.sweek))
         IN  [st |-> [st EXCEPT !.gpos_gweek = f[1], !.gpos_sweek = f[2],
                                !.gweek = 0],
              ret |-> "NULL", log |-> {}, report |-> FALSE]

(***************************************************************************)
(* The messages of the receiver as the host finds them in memory: every    *)
(* short in wire order, which is putshort of its value.                    *)
(***************************************************************************)
DoubleShort(n) == <<putshort(n % USHORT), putshort(n \div USHORT)>>

PulseMsg(s, flags) == [sweek |-> DoubleShort(s), flags |-> putshort(flags)]

GposMsg(navval, w, t) ==
    [navval |-> navval, gweek |-> putshort(w), sweek |-> DoubleShort(t)]

\* The seconds-into-week values and flags of the pulse messages modelled
PulseSecs == {0, 10, 11, 12, 50, WEEKSECS - 1, WEEKSECS + 10}
PulseFlags == {JAVAD_O_PULSE_VALID + JAVAD_O_PULSE_UTC, JAVAD_O_PULSE_VALID,
               JAVAD_O_PULSE_UTC}

\* The weeks and seconds-into-week values of the position messages modelled;
\* the seconds exceed a week by up to MaxOver weeks
MaxOver == 1
GposWeeks == {0, 2190, 7000}
GposSecs == {30, WEEKSECS - 10} \cup {(k * WEEKSECS) + 30 : k \in 1..MaxOver}

\* <<navval, week, seconds>>: the valid ones, and one without a solution
GposMsgs == ({0} \X {2190} \X GposSecs)
            \cup ({0} \X GposWeeks \X {30}) \cup {<<1, 2190, 30>>}

Tracker == [gweek |-> gweek, gpos_gweek |-> gpos_gweek,
            gpos_sweek |-> gpos_sweek, lastsweek |-> lastsweek,
            timecode |-> timecode]

SetTracker(st) ==
    /\ gweek' = st.gweek
    /\ gpos_gweek' = st.gpos_gweek
    /\ gpos_sweek' = st.gpos_sweek
    /\ lastsweek' = st.lastsweek
    /\ timecode' = st.timecode

(***************************************************************************)
(* SpecTime: position and pulse messages in any order, on either host.     *)
(* e2e follows the run "first message a valid position message, then good  *)
(* pulses with consecutive seconds, each within half a week of the         *)
(* anchor": n is the number of such pulses so far, first the second of the *)
(* first of them and warps the number of "jumped" logs among them.         *)
(***************************************************************************)
MaxRolls  == 1
MaxStream == 3

Dist(a, b) == IF a >= b THEN a - b ELSE b - a

InitTime ==
    /\ RxIdle /\ ChunkIdle /\ CkIdle /\ RecvIdle /\ TimeIdle /\ SessIdle
    /\ bigendian \in BOOLEAN

\* The seconds of the pulses across a week boundary
RollStream == <<WEEKSECS - 2, WEEKSECS - 1, 0, 1>>

\* roll after a pulse: n counts the pulses of RollStream received in order,
\* all valid and UTC-synced, the first of them with the week known; w is the
\* week before the first and warps counts the "jumped" logs of the later ones
RollAfter(s, f, log) ==
    IF f # JAVAD_O_PULSE_VALID + JAVAD_O_PULSE_UTC
    THEN [n |-> 0, w |-> 0, warps |-> 0]
    ELSE IF roll.n \in 1..(Len(RollStream) - 1) /\ s = RollStream[roll.n + 1]
    THEN [n |-> roll.n + 1, w |-> roll.w,
          warps |-> roll.warps + (IF "jumped" \in log THEN 1 ELSE 0)]
    ELSE IF s = RollStream[1] /\ gweek # 0
    THEN [n |-> 1, w |-> gweek, warps |-> 0]
    ELSE [n |-> 0, w |-> 0, warps |-> 0]

\* javad_parse_t called with the pulse message of second s and flags f
PulseStep(s, f) ==
         LET r  == javad_parse_t(Tracker, PulseMsg(s, f))
             sw == s % WEEKSECS
             inrun == /\ e2e.stage = "anchored"
                      /\ f = JAVAD_O_PULSE_VALID + JAVAD_O_PULSE_UTC
                      /\ e2e.n < MaxStream
                      /\ e2e.n = 0 \/ sw = e2e.first + e2e.n
                      /\ Dist(sw, gpos_sweek) <= WEEKSECS \div 2
         IN  /\ "NEW gps week" \in r.log => nroll < MaxRolls
             /\ SetTracker(r.st)
             /\ tprev' = Tracker
             /\ tmsg' = [kind |-> "pulse", s |-> s, flags |-> f]
             /\ tret' = r.ret
             /\ tlog' = r.log
             /\ treport' = r.report
             /\ nroll' = IF "NEW gps week" \in r.log THEN nroll + 1 ELSE nroll
             /\ roll' = RollAfter(s, f, r.log)
             /\ e2e' = IF inrun
                        THEN [stage |-> "anchored", n |-> e2e.n + 1,
                              first |-> IF e2e.n = 0 THEN sw ELSE e2e.first,
                              warps |-> e2e.warps
                                        + (IF "jumped" \in r.log THEN 1 ELSE 0)]
                        ELSE [stage |-> "off", n |-> 0, first |-> 0, warps |-> 0]

ParseT ==
    /\ \E s \in PulseSecs, f \in PulseFlags : PulseStep(s, f)
    /\ UNCHANGED <<rxvars, chunkvars, bigendian, ckvars, recvvars, sessvars>>

\* javad_parse_gpos called with the position message g
GposStep(g) ==
         LET navval == g[1]
             w == g[2]
             t == g[3]
             r == javad_parse_gpos(Tracker, GposMsg(navval, w, t))
         IN  /\ SetTracker(r.st)
             /\ tprev' = Tracker
             /\ roll' = [n |-> 0, w |-> 0, warps |-> 0]
             /\ tmsg' = [kind |-> "gpos", navval |-> navval, w |-> w, t |-> t]
             /\ tret' = r.ret
             /\ tlog' = r.log
             /\ treport' = r.report
             /\ e2e' = IF e2e.stage = "start" /\ navval = 0
                        THEN [stage |-> "anchored", n |-> 0, first |-> 0, warps |-> 0]
                        ELSE [stage |-> "off", n |-> 0, first |-> 0, warps |-> 0]
             /\ nroll' = nroll

ParseGpos ==
    /\ \E g \in GposMsgs : GposStep(g)
    /\ UNCHANGED <<rxvars, chunkvars, bigendian, ckvars, recvvars, sessvars>>

NextTime == ParseT \/ ParseGpos

SpecTime == InitTime /\ [][NextTime]_vars

(***************************************************************************)
(* SpecRoll: position messages and the pulses of RollStream in any order.  *)
(***************************************************************************)
ParseRollT ==
    /\ \E i \in 1..Len(RollStream), f \in PulseFlags : PulseStep(RollStream[i], f)
    /\ UNCHANGED <<rxvars, chunkvars, bigendian, ckvars, recvvars, sessvars>>

NextRoll == ParseRollT \/ ParseGpos

SpecRoll == InitTime /\ [][NextRoll]_vars

(***************************************************************************)
(* C7 -- Position normalization: after a valid position message with week  *)
(* w and seconds-into-week t, gpos_sweek is in [0, WEEKSECS) and           *)
(* gpos_gweek * WEEKSECS + gpos_sweek = w * WEEKSECS + t.  With gpos_sweek *)
(* in that range the equation is gpos_gweek = w + t \div WEEKSECS and      *)
(* gpos_sweek = t % WEEKSECS, which is how it is written here.             *)
(***************************************************************************)
C7_PositionNormalized ==
    (tmsg.kind = "gpos" /\ tmsg.navval = 0) =>
        /\ gpos_sweek < WEEKSECS
        /\ gpos_gweek = tmsg.w + (tmsg.t \div WEEKSECS)
        /\ gpos_sweek = tmsg.t % WEEKSECS

(***************************************************************************)
(* C8 -- Anchor tie-break: a pulse with second s handled while the week is *)
(* unknown and the anchor is (W, p) with W # 0 resolves gweek to W + 1 if  *)
(* p >= s and p - s > WEEKSECS/2, to W - 1 if s > p and s - p > WEEKSECS/2,*)
(* and to W otherwise.                                                     *)
(***************************************************************************)
C8_AnchorTieBreak ==
    (tmsg.kind = "pulse" /\ tprev.gweek = 0 /\ tprev.gpos_gweek # 0) =>
        LET s == tmsg.s % WEEKSECS
            p == tprev.gpos_sweek
            W == tprev.gpos_gweek
        IN  gweek = IF p >= s /\ p - s > WEEKSECS \div 2 THEN W + 1
                    ELSE IF s > p /\ s - p > WEEKSECS \div 2 THEN W - 1
                    ELSE W

\* The crossing-boundary case: anchor second WEEKSECS - 10, pulse second 10
C8_Witness ==
    /\ tmsg.kind = "pulse" /\ tmsg.s = 10
    /\ tprev.gweek = 0 /\ tprev.gpos_gweek = 2190
    /\ tprev.gpos_sweek = WEEKSECS - 10
    /\ gweek = 2191

(***************************************************************************)
(* C9 -- End-to-end reconstruction, as claimed: after a first, valid       *)
(* position message that left the anchor (W, p), the i-th of a run of      *)
(* valid, UTC-synced pulses with consecutive seconds, each within half a   *)
(* week of p, leaves timecode = GPS_EPOCH + W * WEEKSECS + s_i, and no     *)
(* pulse of the run logs "sweek jumped".                                   *)
(***************************************************************************)
C9_Reconstruction ==
    (e2e.stage = "anchored" /\ e2e.n >= 1) =>
        /\ timecode = TimeSum(gpos_gweek, e2e.first + e2e.n - 1)
        /\ e2e.warps = 0

(***************************************************************************)
(* C9 amended -- the same run with an anchor week W # 0 leaves timecode =  *)
(* (GPS_EPOCH + W * WEEKSECS + s_i) mod 2^32 and logs no "sweek jumped".   *)
(***************************************************************************)
C9_ReconstructionMod32 ==
    (e2e.stage = "anchored" /\ e2e.n >= 1 /\ gpos_gweek # 0) =>
        LET t == TimeSum(gpos_gweek, e2e.first + e2e.n - 1)
        IN  /\ timecode = [hi |-> t.hi % USHORT, lo |-> t.lo]
            /\ e2e.warps = 0

\* Anchor (2191, 30) and the pulses 10, 11, 12
C9_Witness ==
    /\ ~bigendian
    /\ e2e.stage = "anchored" /\ e2e.n = 3 /\ e2e.first = 10
    /\ gpos_gweek = 2191 /\ gpos_sweek = 30
    /\ timecode = TimeSum(2191, 12)

(***************************************************************************)
(* C10 -- Warp logging, as claimed: javad_parse_t logs "sweek jumped" for  *)
(* a pulse exactly when lastsweek is not the 2 * WEEKSECS sentinel, the    *)
(* new s differs from lastsweek, s is not lastsweek + 1 and the step is    *)
(* not the rollover WEEKSECS - 1 -> 0.                                     *)
(***************************************************************************)
WarpExpected ==
    LET s == tmsg.s % WEEKSECS
        last == tprev.lastsweek
    IN  /\ last # 2 * WEEKSECS
        /\ s # last
        /\ s # last + 1
        /\ ~(last = WEEKSECS - 1 /\ s = 0)

C10_WarpLogging ==
    tmsg.kind = "pulse" => (("jumped" \in tlog) <=> WarpExpected)

(***************************************************************************)
(* C10 amended -- the same equivalence for every pulse that is not dropped *)
(* for an unknown week, that is, one handled with gweek # 0 or with an     *)
(* anchor week gpos_gweek # 0.                                             *)
(***************************************************************************)
C10_WarpLoggingKnownWeek ==
    (tmsg.kind = "pulse" /\ (tprev.gweek # 0 \/ tprev.gpos_gweek # 0)) =>
        (("jumped" \in tlog) <=> WarpExpected)

\* The 50 step of the stream 10, 11, 50
C10_Witness ==
    /\ tmsg.kind = "pulse" /\ tmsg.s = 50
    /\ tprev.lastsweek = 11 /\ tprev.gweek # 0
    /\ "jumped" \in tlog

(***************************************************************************)
(* C12 -- Invalid fix: after a position message whose navigation solution  *)
(* is not valid, gpos_gweek and gpos_sweek are 0 and gweek is 0 (unknown). *)
(***************************************************************************)
C12_InvalidFixClearsWeek ==
    (tmsg.kind = "gpos" /\ tmsg.navval # 0) =>
        /\ gpos_gweek = 0
        /\ gpos_sweek = 0
        /\ gweek = 0

(***************************************************************************)
(* C13 -- Bad time mark: a pulse with its valid flag or its UTC flag clear *)
(* is reported as CEVNT_BADTIME, returns an error and leaves timecode at   *)
(* the value it had before the message.  Stated for the pulses that reach  *)
(* the flag test, those handled with the week known or anchored; the       *)
(* others are the subject of C14.                                          *)
(***************************************************************************)
C13_BadTimeMarkKeepsTimecode ==
    (/\ tmsg.kind = "pulse"
     /\ tmsg.flags # JAVAD_O_PULSE_VALID + JAVAD_O_PULSE_UTC
     /\ (tprev.gweek # 0 \/ tprev.gpos_gweek # 0)) =>
        /\ treport
        /\ tret # "NULL"
        /\ timecode = tprev.timecode

(***************************************************************************)
(* C14 -- Time not yet known: a pulse handled with gweek = 0 and           *)
(* gpos_gweek = 0 is dropped: gweek, lastsweek and timecode are unchanged, *)
(* nothing is logged and no clock event is reported.                       *)
(***************************************************************************)
C14_UnknownWeekDropped ==
    (tmsg.kind = "pulse" /\ tprev.gweek = 0 /\ tprev.gpos_gweek = 0) =>
        /\ gweek = tprev.gweek
        /\ lastsweek = tprev.lastsweek
        /\ timecode = tprev.timecode
        /\ tlog = {}
        /\ ~treport
        /\ tret = "javad_parse_t: Unknown gweek"

\* A pulse dropped after an earlier one was handled: a second is stored and
\* the new one is no successor of it
C14_Witness ==
    /\ tmsg.kind = "pulse" /\ tmsg.s = 50
    /\ tprev.gweek = 0 /\ tprev.gpos_gweek = 0
    /\ tprev.lastsweek = 0
    /\ tprev.timecode # [hi |-> 0, lo |-> 0]
    /\ tret = "javad_parse_t: Unknown gweek"

(***************************************************************************)
(* C19 -- as claimed: no position or pulse message lowers gweek, except    *)
(* the anchor tie-break of javad_parse_t, which resolves an unknown week   *)
(* to one week less than the anchor.                                       *)
(***************************************************************************)
C19_WeekNeverLowered ==
    (tmsg.kind \in {"pulse", "gpos"}) => gweek >= tprev.gweek

(***************************************************************************)
(* C19 amended -- a message that lowers gweek is a position message and    *)
(* sets it to 0, which every valid position message does; no pulse message *)
(* lowers gweek.                                                           *)
(***************************************************************************)
C19_WeekLoweredByPositionOnly ==
    /\ (tmsg.kind \in {"pulse", "gpos"} /\ gweek < tprev.gweek) =>
           (tmsg.kind = "gpos" /\ gweek = 0)
    /\ (tmsg.kind = "gpos" /\ tmsg.navval = 0) => gweek = 0

\* A valid position message resets a week that the rollback correction had
\* resolved to one less than the anchor
C19_Witness ==
    /\ tmsg.kind = "gpos" /\ tmsg.navval = 0
    /\ tprev.gweek # 0 /\ tprev.gweek = tprev.gpos_gweek - 1
    /\ gweek = 0

(***************************************************************************)
(* C20 -- Natural rollover: with the week known (gweek = W # 0) and no     *)
(* position message in between, the valid pulses WEEKSECS-2, WEEKSECS-1,   *)
(* 0, 1 increment gweek exactly once, at the pulse with s = 0; timecode    *)
(* increases by exactly 1 at every step and no warp is logged.             *)
(***************************************************************************)
Inc(t) ==
    IF t.lo = USHORT - 1 THEN [hi |-> t.hi + 1, lo |-> 0]
    ELSE [hi |-> t.hi, lo |-> t.lo + 1]

C20_NaturalRollover ==
    /\ roll.n >= 1 => gweek = roll.w + (IF roll.n >= 3 THEN 1 ELSE 0)
    /\ roll.n >= 2 => (timecode = Inc(tprev.timecode) /\ roll.warps = 0)

\* The whole stream received
C20_Witness ==
    /\ roll.n = Len(RollStream) /\ roll.w = 2190
    /\ gweek = 2191 /\ lastsweek = 1
    /\ timecode = TimeSum(2191, 1)

(***************************************************************************)
(* The session: javad_start, javad_shutdown, javad_config, javad_send,     *)
(* javad_ppsapi, javad_pps and javad_control.                              *)
(***************************************************************************)
\* What write(2) may do with a command: take all of it, a part, or fail
WriteOutcomes == {"full", "short", "error"}

\* javad_send: the command followed by a carriage return is handed to one
\* write call; the result is NULL (no error) only if all of it was taken
javad_send(p, w) ==
    [buf |-> <<p, CR>>, cc |-> w,
     errmsg |-> IF w = "error" THEN "write"
                ELSE IF w = "short" THEN "short write" ELSE "NULL"]

\* The commands of javad_config, lines 293, 297 and 301
Commands == <<"dm,/cur/term", "set,/par/nmea/notime,off", "em,,nmea/RMC:1">>

\* Every command sent, whatever became of the one before.
RECURSIVE SendFrom_noabort(_, _)
SendFrom_noabort(i, ws) ==
    IF i > Len(Commands) THEN <<>>
    ELSE <<javad_send(Commands[i], ws[i])>> \o SendFrom_noabort(i + 1, ws)

\* Lines 293-301: command i and, if errmsg is still NULL, the ones after it;
\* ws[i] is what write does with command i
RECURSIVE SendFrom(_, _)
SendFrom(i, ws) ==
    IF i > Len(Commands) THEN <<>>
    ELSE LET r == javad_send(Commands[i], ws[i])
         IN  <<r>> \o (IF r.errmsg = "NULL" THEN SendFrom(i + 1, ws) ELSE <<>>)

\* The tracker as lines 284-288 of javad_config leave it
ConfigTracker ==
    [gweek |-> 0, gpos_gweek |-> 0, gpos_sweek |-> 0,
     lastsweek |-> 2 * WEEKSECS, timecode |-> [hi |-> 0, lo |-> 0]]

\* javad_config, lines 265-322: the fields it resets, the writes it makes and
\* what it returns.  pollcnt, polled and stime, which it also resets, are read
\* by no compiled code and are not modelled.
javad_config(flags, ws) ==
    LET w == SendFrom(1, ws)
    IN  [sloppyclockflag |-> flags, tracker |-> ConfigTracker, ssize |-> 0,
         written |-> w,
         ret |-> IF w[Len(w)].errmsg = "NULL" THEN 1 ELSE 0]

\* What the PPSAPI calls of javad_ppsapi may do: time_pps_getcap fails or
\* reports the edges the source can capture, time_pps_setparams succeeds or
\* not.  javad_control makes the calls on handle 0 as well, where they act
\* on whatever descriptor 0 is: one capability is kept for that case.
PpsapiOutcomes(handle) ==
    {[getcap |-> FALSE, capability |-> {}, setparams |-> FALSE]}
    \cup [getcap : {TRUE},
          capability : IF handle = 0 THEN {{"assert", "clear"}}
                       ELSE SUBSET {"assert", "clear"},
          setparams : BOOLEAN]

\* javad_ppsapi, lines 328-380, on the instance fields in.  hardpps is 0 from
\* line 209 on, so the time_pps_kcbind branch is never taken.
javad_ppsapi(in, o) ==
    IF ~o.getcap THEN [instance |-> in, ret |-> 0]
    ELSE LET edge == IF in.assert = 0 THEN "clear" ELSE "assert"
             mode == IF edge \in o.capability THEN edge ELSE "none"
             in1  == [in EXCEPT !.mode = mode]
         IN  IF mode = "none" THEN [instance |-> in1, ret |-> 0]
             ELSE IF ~o.setparams THEN [instance |-> in1, ret |-> 0]
             ELSE [instance |-> in1, ret |-> 1]

\* javad_shutdown without the time_pps_destroy of lines 251-254.
javad_shutdown_nopps(a, in, p, k) ==
    IF ~p.unitptr THEN [alloc |-> a, instance |-> in, pp |-> p, kern |-> k]
    ELSE [alloc |-> "freed",
          instance |-> in,
          pp |-> IF p.io_fd # -1 THEN [p EXCEPT !.io_fd = -1] ELSE p,
          kern |-> [k EXCEPT !.fdopen = IF p.io_fd # -1 THEN FALSE ELSE @]]

\* javad_shutdown, lines 238-260.  io_closeclock closes the descriptor and
\* marks it closed in pp->io.
javad_shutdown(a, in, p, k) ==
    IF ~p.unitptr THEN [alloc |-> a, instance |-> in, pp |-> p, kern |-> k]
    ELSE [alloc |-> "freed",
          instance |-> IF in.pps_handle # 0 THEN [in EXCEPT !.pps_handle = 0]
                       ELSE in,
          pp |-> IF p.io_fd # -1 THEN [p EXCEPT !.io_fd = -1] ELSE p,
          kern |-> [k EXCEPT !.fdopen = IF p.io_fd # -1 THEN FALSE ELSE @,
                             !.pps_held = IF in.pps_handle # 0 THEN FALSE ELSE @]]

(***************************************************************************)
(* javad_pps, lines 387-428.                                               *)
(***************************************************************************)
\* NTP seconds of the Unix epoch, in 16-bit halves (2208988800)
JAN_1970 == [hi |-> 33706, lo |-> 32384]

\* Lines 423-425: l_ui = (u_int32)tv_sec + JAN_1970 and
\* l_uf = (u_int32)(tv_nsec * 2^32 / 1e9), which is tv_nsec * 2^23 / 5^9,
\* both in 16-bit halves; the quotient is taken by long division
Lfp(ts) ==
    LET d    == 1953125
        sec  == WideOf(ts.tv_sec)
        lo   == JAN_1970.lo + sec.lo
        q0   == ts.tv_nsec \div d
        r0   == ts.tv_nsec % d
        r1   == (r0 * 128) % d
        r2   == (r1 * 256) % d
    IN  [l_ui |-> [hi |-> (JAN_1970.hi + sec.hi + (lo \div USHORT)) % USHORT,
                   lo |-> lo % USHORT],
         l_uf |-> [hi |-> (q0 * 128) + ((r0 * 128) \div d),
                   lo |-> (((r1 * 256) \div d) * 256) + ((r2 * 256) \div d)]]

\* The sequence number and the timestamp of the edge that mode selects,
\* lines 401-413
SelectedSequence(mode, info) ==
    IF mode = "assert" THEN info.assert_sequence ELSE info.clear_sequence

SelectedTimestamp(mode, info) ==
    IF mode = "assert" THEN info.assert_timestamp ELSE info.clear_timestamp

\* javad_pps without the sequence tests of lines 407-409 and 412-414.
javad_pps_noseq(in, lastrec, f) ==
    IF in.pps_handle = 0 THEN [instance |-> in, lastrec |-> lastrec, ret |-> 1]
    ELSE IF ~f.ok THEN [instance |-> in, lastrec |-> lastrec, ret |-> 1]
    ELSE LET in1 == [in EXCEPT !.pps_info = f.info]
             sel == IF in.mode = "assert" THEN f.info.assert_timestamp
                    ELSE f.info.clear_timestamp
         IN  IF in.mode = "none"
             THEN [instance |-> in1, lastrec |-> lastrec, ret |-> 1]
             ELSE IF in.ts = sel
             THEN [instance |-> in1, lastrec |-> lastrec, ret |-> 1]
             ELSE [instance |-> [in1 EXCEPT !.ts = sel],
                   lastrec |-> Lfp(sel), ret |-> 0]

\* f is what time_pps_fetch does: it fails, or stores the pps_info_t f.info
javad_pps(in, lastrec, f) ==
    IF in.pps_handle = 0 THEN [instance |-> in, lastrec |-> lastrec, ret |-> 1]
    ELSE IF ~f.ok THEN [instance |-> in, lastrec |-> lastrec, ret |-> 1]
    ELSE LET old == in.pps_info
             in1 == [in EXCEPT !.pps_info = f.info]
             same == IF in.mode = "assert"
                     THEN old.assert_sequence = f.info.assert_sequence
                     ELSE old.clear_sequence = f.info.clear_sequence
             sel == IF in.mode = "assert" THEN f.info.assert_timestamp
                    ELSE f.info.clear_timestamp
         IN  IF in.mode = "none" \/ same
             THEN [instance |-> in1, lastrec |-> lastrec, ret |-> 1]
             ELSE IF in.ts = sel
             THEN [instance |-> in1, lastrec |-> lastrec, ret |-> 1]
             ELSE [instance |-> [in1 EXCEPT !.ts = sel],
                   lastrec |-> Lfp(sel), ret |-> 0]

(***************************************************************************)
(* javad_control, lines 475-509.                                           *)
(***************************************************************************)
\* The mode switch looked for in CLK_FLAG3.
ModeSwitch_flag3(old, new) == old.flag3 # new.flag3

\* Every javad_control taken for a mode switch.
ModeSwitch_always(old, new) == TRUE

\* Lines 502-503: the CLK_FLAG2 bits of the stored and the new fudge flags
ModeSwitch(old, new) == old.flag2 # new.flag2

\* Lines 490-493: the fudge time as a non-negative l_fp
Limit(fudgetime2) == IF fudgetime2 < 0 THEN -fudgetime2 ELSE fudgetime2

(***************************************************************************)
(* javad_start, lines 166-233.                                             *)
(***************************************************************************)
\* The PPS source required: a failed time_pps_create fails the start.
PpsOpen_strict(in, k, o) ==
    IF ~o.create
    THEN [instance |-> in, kern |-> [k EXCEPT !.pps_tried = TRUE], ok |-> FALSE]
    ELSE LET a == javad_ppsapi([in EXCEPT !.pps_handle = 1], o.api)
         IN  [instance |-> a.instance,
              kern |-> [k EXCEPT !.pps_held = TRUE, !.pps_made = TRUE,
                                 !.pps_tried = TRUE],
              ok |-> a.ret # 0]

\* Lines 207-221: time_pps_create and, if it gave a handle, javad_ppsapi
PpsOpen(in, k, o) ==
    IF ~o.create
    THEN [instance |-> [in EXCEPT !.pps_handle = 0],
          kern |-> [k EXCEPT !.pps_tried = TRUE], ok |-> TRUE]
    ELSE LET a == javad_ppsapi([in EXCEPT !.pps_handle = 1], o.api)
         IN  [instance |-> a.instance,
              kern |-> [k EXCEPT !.pps_held = TRUE, !.pps_made = TRUE,
                                 !.pps_tried = TRUE],
              ok |-> a.ret # 0]

\* Lines 229-232: javad_shutdown, then the unit pointer cleared
CleanUp(in, p, k, cfg, w) ==
    LET d == javad_shutdown("live", in, p, k)
    IN  [alloc |-> d.alloc, instance |-> d.instance,
         pp |-> [d.pp EXCEPT !.unitptr = FALSE], kern |-> d.kern,
         cfg |-> cfg, written |-> w, ret |-> 0]

\* What the write calls of one javad_config may do: ws[i] for command i.
\* No write follows one that was not "full", so of the outcomes that differ
\* only after the first such write one is kept.
WriteRuns ==
    {ws \in [1..Len(Commands) -> WriteOutcomes] :
        \A i, j \in 1..Len(Commands) : (i < j /\ ws[i] # "full") => ws[j] = "full"}

\* What the calls of javad_start may do
StartOutcomes ==
    LET none == [open |-> FALSE, addclock |-> FALSE, create |-> FALSE,
                 api |-> CHOOSE o \in PpsapiOutcomes(0) : ~o.getcap,
                 ws |-> CHOOSE ws \in WriteRuns : \A i \in DOMAIN ws : ws[i] = "full"]
    IN  {none, [none EXCEPT !.open = TRUE]}
        \cup {[none EXCEPT !.open = TRUE, !.addclock = TRUE, !.ws = ws] :
                 ws \in WriteRuns}
        \cup {[none EXCEPT !.open = TRUE, !.addclock = TRUE, !.create = TRUE,
                            !.api = o, !.ws = ws] :
                 o \in PpsapiOutcomes(1), ws \in WriteRuns}

javad_start(p, k, o) ==
    IF ~o.open
    THEN [alloc |-> "none", instance |-> ZeroInstance, pp |-> p, kern |-> k,
          cfg |-> -1, written |-> <<>>, ret |-> 0]
    ELSE IF ~o.addclock
    THEN [alloc |-> "none", instance |-> ZeroInstance,
          pp |-> [p EXCEPT !.io_fd = -1], kern |-> k,
          cfg |-> -1, written |-> <<>>, ret |-> 0]
    ELSE LET p1 == [p EXCEPT !.io_fd = ClockFd, !.unitptr = TRUE]
             k1 == [k EXCEPT !.fdopen = TRUE]
             po == PpsOpen([ZeroInstance EXCEPT !.assert = 1], k1, o)
             c  == javad_config(p1.sloppyclockflag, o.ws)
             in == [po.instance EXCEPT !.sloppyclockflag = c.sloppyclockflag]
         IN  IF ~po.ok THEN CleanUp(po.instance, p1, po.kern, -1, <<>>)
             ELSE IF c.ret = 0 THEN CleanUp(in, p1, po.kern, 0, c.written)
             ELSE [alloc |-> "live", instance |-> in, pp |-> p1,
                   kern |-> po.kern, cfg |-> 1, written |-> c.written,
                   ret |-> 1]

(***************************************************************************)
(* SpecSess: one session from javad_start to javad_shutdown, with fudge    *)
(* changes, received bytes and messages in between.                        *)
(***************************************************************************)
\* The fudge flags and times the daemon may set
Flags == [flag2 : BOOLEAN, flag3 : BOOLEAN]
FudgeTimes == {-1}

\* What time_pps_fetch may store: sequence numbers up to MaxSeq, two
\* timestamps half a second apart for the assert edge and one for the clear
\* edge
MaxSeq == 1
TsVals == {[tv_sec |-> 1, tv_nsec |-> 0], [tv_sec |-> 1, tv_nsec |-> 500000000]}
ClearTs == [tv_sec |-> 2, tv_nsec |-> 1]
Fetches ==
    {[ok |-> FALSE, info |-> ZeroInfo]}
    \cup [ok : {TRUE},
          info : [assert_sequence : 0..MaxSeq, assert_timestamp : TsVals,
                  clear_sequence : 0..MaxSeq, clear_timestamp : {ClearTs}]]

InitSess ==
    /\ RxIdle /\ ChunkIdle /\ CkIdle /\ RecvIdle /\ TimeIdle
    /\ bigendian = FALSE
    /\ alloc = "none"
    /\ instance = ZeroInstance
    /\ pp = [unitptr |-> FALSE, io_fd |-> -1, sloppyclockflag |-> NoFlags,
             fudgetime2 |-> 0, lastrec |-> ZeroLfp]
    /\ kern = [fdopen |-> FALSE, pps_held |-> FALSE, pps_made |-> FALSE,
               pps_tried |-> FALSE]
    /\ written = <<>>
    /\ sret = [op |-> "none", ret |-> 0, cfg |-> -1]
    /\ pprev = NoPoll

Start ==
    /\ alloc = "none"
    /\ \E o \in StartOutcomes :
         LET r == javad_start(pp, kern, o)
         IN  /\ alloc' = r.alloc
             /\ instance' = r.instance
             /\ pp' = r.pp
             /\ kern' = r.kern
             /\ written' = r.written
             /\ sret' = [op |-> "javad_start", ret |-> r.ret, cfg |-> r.cfg]
             /\ IF r.cfg # -1
                THEN SetTracker(ConfigTracker) /\ ssize' = 0
                ELSE UNCHANGED <<trackvars, ssize>>
    /\ UNCHANGED <<pprev, ibuf, rbuf, out, hiwr, aborted, chunkvars, bigendian,
                   ckvars, recvvars, tmsg, tret, tlog, treport, nroll, tprev,
                   roll, e2e>>

Shutdown ==
    /\ alloc = "live" \/ ~pp.unitptr
    /\ LET d == javad_shutdown(alloc, instance, pp, kern)
       IN  /\ alloc' = d.alloc
           /\ instance' = d.instance
           /\ pp' = d.pp
           /\ kern' = d.kern
    /\ sret' = [op |-> "javad_shutdown", ret |-> 0, cfg |-> -1]
    /\ UNCHANGED <<pprev, written, rxvars, chunkvars, bigendian, ckvars, recvvars,
                   timevars>>

\* The daemon stores new fudge values in pp and calls javad_control; the
\* flags are one of F, the writes of a javad_config it leads to do what one
\* of W says
ControlOn(F, W) ==
    /\ alloc = "live"
    /\ \E fl \in F, ft \in FudgeTimes, o \in PpsapiOutcomes(instance.pps_handle) :
       \E ws \in IF ModeSwitch(instance.sloppyclockflag, fl)
                 THEN W ELSE {CHOOSE w \in W : TRUE} :
         LET in1 == [instance EXCEPT !.limit = Limit(ft),
                                     !.assert = IF fl.flag3 THEN 0 ELSE 1]
             in2 == javad_ppsapi(in1, o).instance
             sw  == ModeSwitch(instance.sloppyclockflag, fl)
             c   == javad_config(fl, ws)
         IN  /\ instance' = [in2 EXCEPT !.sloppyclockflag = fl]
             /\ pp' = [pp EXCEPT !.sloppyclockflag = fl, !.fudgetime2 = ft]
             /\ written' = IF sw THEN c.written ELSE written
             /\ sret' = [op |-> "javad_control", ret |-> 0,
                         cfg |-> IF sw THEN c.ret ELSE -1]
             /\ IF sw
                THEN SetTracker(c.tracker) /\ ssize' = c.ssize
                ELSE UNCHANGED <<trackvars, ssize>>
    /\ UNCHANGED <<pprev, alloc, kern, ibuf, rbuf, out, hiwr, aborted, chunkvars,
                   bigendian, ckvars, recvvars, tmsg, tret, tlog, treport,
                   nroll, tprev, roll, e2e>>

Control == ControlOn(Flags, WriteRuns)

Pps ==
    /\ alloc = "live"
    /\ \E f \in Fetches :
         LET r == javad_pps(instance, pp.lastrec, f)
         IN  /\ instance' = r.instance
             /\ pp' = [pp EXCEPT !.lastrec = r.lastrec]
             /\ sret' = [op |-> "javad_pps", ret |-> r.ret, cfg |-> -1]
             /\ pprev' = [pps_handle |-> instance.pps_handle,
                          mode |-> instance.mode,
                          pps_info |-> instance.pps_info, ts |-> instance.ts,
                          lastrec |-> pp.lastrec, fetched |-> f, ret |-> r.ret,
                          again |-> pprev.polled /\ f = pprev.fetched,
                          ret0 |-> pprev.ret, mode0 |-> pprev.mode,
                          polled |-> TRUE]
    /\ UNCHANGED <<alloc, kern, written, rxvars, chunkvars, bigendian, ckvars,
                   recvvars, timevars>>

\* A valid position message and a good pulse, to give the tracker values
SessGpos ==
    /\ alloc = "live"
    /\ GposStep(<<0, 2190, 30>>)
    /\ sret' = [op |-> "javad_parse_gpos", ret |-> 0, cfg |-> -1]
    /\ UNCHANGED <<alloc, instance, pp, kern, written, pprev, rxvars, chunkvars,
                   bigendian, ckvars, recvvars>>

SessPulse ==
    /\ alloc = "live"
    /\ PulseStep(10, JAVAD_O_PULSE_VALID + JAVAD_O_PULSE_UTC)
    /\ sret' = [op |-> "javad_parse_t", ret |-> 0, cfg |-> -1]
    /\ UNCHANGED <<alloc, instance, pp, kern, written, pprev, rxvars, chunkvars,
                   bigendian, ckvars, recvvars>>

\* A byte of an unfinished line, to give ssize a value
MaxSessBytes == 1

SessReceive ==
    /\ alloc = "live"
    /\ ssize < MaxSessBytes
    /\ LET r == javad_receive(ibuf, ssize, <<Letter>>, FALSE, NUL)
       IN  /\ ibuf' = r.ibuf
           /\ ssize' = r.ssize
           /\ out' = r.out
           /\ hiwr' = r.hiwr
           /\ aborted' = r.aborted
           /\ rbuf' = <<Letter>>
    /\ sret' = [op |-> "javad_receive", ret |-> 0, cfg |-> -1]
    /\ UNCHANGED <<alloc, instance, pp, kern, written, pprev, chunkvars,
                   bigendian, ckvars, recvvars, timevars>>

NextSess ==
    Start \/ Shutdown \/ Control \/ SessGpos \/ SessPulse \/ SessReceive

SpecSess == InitSess /\ [][NextSess]_vars

(***************************************************************************)
(* SpecPps: one session with PPS polls and changes of the capture edge     *)
(* (CLK_FLAG3); CLK_FLAG2 stays clear.                                     *)
(***************************************************************************)
AllFull == [i \in 1..Len(Commands) |-> "full"]

PpsControl == ControlOn({fl \in Flags : ~fl.flag2}, {AllFull})

NextPps == Start \/ Shutdown \/ PpsControl \/ Pps

SpecPps == InitSess /\ [][NextPps]_vars


C15_OrderedStartup ==
    LET lit == <<"dm,/cur/term", "set,/par/nmea/notime,off", "em,,nmea/RMC:1">>
        n   == Len(written)
    IN  /\ n <= 3
        /\ \A i \in 1..n :
             /\ written[i].buf = <<lit[i], 13>>
             /\ i < n => written[i].cc = "full"
             /\ written[i].cc # "full" => i = n
        /\ sret.cfg # -1 =>
             /\ n >= 1
             /\ sret.cfg \in {0, 1}
             /\ sret.cfg = 0 <=> written[n].cc \in {"short", "error"}
             /\ sret.cfg = 1 <=> (n = 3 /\ \A i \in 1..3 : written[i].cc = "full")
             /\ (sret.op = "javad_start" /\ sret.ret = 1) => sret.cfg = 1

\* The second command was cut short on a reconfiguration: the third was not
\* written and javad_config returned 0
C15_Witness ==
    /\ sret.op = "javad_control" /\ sret.cfg = 0
    /\ Len(written) = 2
    /\ written[1].cc = "full" /\ written[2].cc = "short"

\* C16: a javad_start in which a startup command write failed or was short,
\* or the PPS parameter setup failed, returns 0, and by then a created PPS
\* handle is destroyed, the clock descriptor closed, the instance freed and
\* the unit pointer cleared; a javad_start that returns 1 with a PPS source
\* has set its parameters and written all commands; and after javad_shutdown
\* no PPS handle is held.
C16_FailedStartReleases ==
    /\ (sret.op = "javad_start" /\ sret.cfg = 0) => sret.ret = 0
    /\ (sret.op = "javad_start" /\ sret.ret = 0) =>
         /\ ~kern.pps_held
         /\ ~kern.fdopen
         /\ pp.io_fd = -1
         /\ alloc \in {"none", "freed"}
         /\ kern.pps_made => alloc = "freed"
         /\ ~pp.unitptr
    /\ (sret.op = "javad_start" /\ sret.ret = 1) =>
         /\ alloc = "live" /\ pp.unitptr /\ kern.fdopen /\ pp.io_fd = ClockFd
         /\ sret.cfg = 1
         /\ kern.pps_made => (kern.pps_held /\ instance.mode = "assert")
    /\ sret.op = "javad_shutdown" => (~kern.pps_held /\ ~kern.fdopen)
    /\ alloc # "live" => ~kern.pps_held

\* A start that created the PPS source and then had a command cut short
C16_Witness ==
    /\ sret.op = "javad_start" /\ sret.ret = 0 /\ sret.cfg = 0
    /\ kern.pps_made /\ ~kern.pps_held /\ ~kern.fdopen
    /\ alloc = "freed" /\ ~pp.unitptr
    /\ written[Len(written)].cc = "short"

\* C17: every javad_control that finds the CLK_FLAG2 bit of the fudge flags
\* different from the one stored in the instance resets gweek, gpos_gweek,
\* gpos_sweek and timecode to 0, lastsweek to 2*WEEKSECS and ssize to 0, and
\* runs the startup commands again from the first, in order; a javad_control
\* that finds the bit unchanged leaves all of these and writes nothing.
C17_ModeSwitchResets ==
    [][(alloc = "live" /\ sret'.op = "javad_control") =>
         IF instance.sloppyclockflag.flag2 # pp'.sloppyclockflag.flag2
         THEN /\ gweek' = 0 /\ gpos_gweek' = 0 /\ gpos_sweek' = 0
              /\ lastsweek' = 1209600
              /\ timecode' = [hi |-> 0, lo |-> 0]
              /\ ssize' = 0
              /\ sret'.cfg \in {0, 1}
              /\ Len(written') >= 1
              /\ written'[1].buf = <<"dm,/cur/term", 13>>
              /\ Len(written') >= 2 =>
                   written'[2].buf = <<"set,/par/nmea/notime,off", 13>>
              /\ Len(written') >= 3 => written'[3].buf = <<"em,,nmea/RMC:1", 13>>
              /\ sret'.cfg = 1 => Len(written') = 3
              /\ instance'.sloppyclockflag = pp'.sloppyclockflag
         ELSE /\ UNCHANGED <<gweek, gpos_gweek, gpos_sweek, lastsweek, timecode,
                             ssize, written>>
              /\ sret'.cfg = -1
              /\ instance'.sloppyclockflag = pp'.sloppyclockflag]_vars

\* A mode switch after a position message, a pulse and a received byte: the
\* week, the anchor and the buffered byte are gone, the commands written
C17_Witness ==
    /\ sret.op = "javad_control" /\ sret.cfg = 1
    /\ instance.sloppyclockflag.flag2
    /\ tmsg.kind = "pulse" /\ tret = "NULL" /\ tprev.gpos_gweek = 2190
    /\ rbuf = <<Letter>>
    /\ gweek = 0 /\ gpos_gweek = 0 /\ lastsweek = 2 * WEEKSECS /\ ssize = 0
    /\ Len(written) = 3

MaxJunk == 4

JunkBytes == {0, JAVAD_SYNC % 256, (JAVAD_SYNC \div 256) % 256}

\* What follows them: a frame without payload, or as many bytes without a
\* sync short
SyncTails == {MakeFrame(1, <<>>), [i \in 1..HdrBytes |-> 0]}

SyncBuffers ==
    {b \in {AsBuf(j \o t) : j \in SeqsUpTo(JunkBytes, MaxJunk), t \in SyncTails} :
        getshort(RawShort(b, 0)) # JAVAD_SYNC}

InitSync ==
    /\ ibuf = ZeroMem /\ rbuf = <<>> /\ out = <<>> /\ hiwr = -1 /\ aborted = FALSE
    /\ ChunkIdle /\ CkIdle /\ TimeIdle /\ SessIdle
    /\ bigendian \in BOOLEAN
    /\ sbuf \in SyncBuffers
    /\ ssize = Cardinality(DOMAIN sbuf)
    /\ ret = -1
    /\ phase = "fresh"
    /\ sold = [buf |-> <<>>, size |-> 0]

Resync ==
    /\ phase = "fresh"
    /\ \E backward \in (IF Overlaps(sbuf, ssize) THEN BOOLEAN ELSE {FALSE}) :
         LET r == javad_recv(sbuf, ssize, backward)
         IN  /\ sbuf' = r.sbuf
             /\ ssize' = r.ssize
             /\ ret' = r.ret
             /\ phase' = IF backward THEN "synced backward" ELSE "synced"
             /\ sold' = [buf |-> sbuf, size |-> ssize]
    /\ UNCHANGED <<ibuf, rbuf, out, hiwr, aborted, chunkvars, bigendian, ckvars,
                   timevars, sessvars>>

NextSync == Resync

SpecSync == InitSync /\ [][NextSync]_vars

\* The byte index of the first sync short (low byte, then high byte) among
\* the first size bytes of buf, -1 if there is none
FirstSync(buf, size) ==
    LET at == {i \in 0..(size - 2) : buf[i] = 255 /\ buf[i + 1] = 129}
    IN  IF at = {} THEN -1 ELSE CHOOSE i \in at : \A j \in at : i <= j

\* The n bytes of buf from byte index f on, as a buffer
From(buf, f, n) == [i \in 0..(n - 1) |-> buf[f + i]]

\* C21 as claimed: after javad_recv has resynchronized, the buffer holds the
\* old buffer from its first sync short on, nothing of it skipped (or no
\* sync short if the old buffer held none); only a frame found there whose
\* checksum is bad is flushed.  Stated for copies that run forward.
C21_ResyncToFirstSync ==
    phase = "synced" =>
        LET f == FirstSync(sold.buf, sold.size)
            n == sold.size - f
        IN  IF f = -1 THEN FirstSync(sbuf, ssize) = -1
            ELSE \/ /\ ssize = n
                    /\ \A i \in 0..(n - 1) : sbuf[i] = sold.buf[f + i]
                 \/ /\ ssize = 0
                    /\ n >= HdrBytes
                    /\ CheckFrame(From(sold.buf, f, n), n).ssize = 0

(***************************************************************************)
(* SpecTrack: position messages, pulses and reconfigurations (a            *)
(* javad_control that finds CLK_FLAG2 changed) in any order.               *)
(***************************************************************************)
\* The seconds of the pulses: the ends of the week and one beyond it
TrackSecs == {0, WEEKSECS - 1, WEEKSECS + 10}

\* A position message with a solution and one without
TrackGposMsgs == {<<0, 2190, 30>>, <<1, 2190, 30>>}

TrackPulse ==
    /\ \E s \in TrackSecs, f \in PulseFlags : PulseStep(s, f)
    /\ UNCHANGED <<rxvars, chunkvars, bigendian, ckvars, recvvars, sessvars>>

TrackGpos ==
    /\ \E g \in TrackGposMsgs : GposStep(g)
    /\ UNCHANGED <<rxvars, chunkvars, bigendian, ckvars, recvvars, sessvars>>

Reconfigure ==
    ControlOn({fl \in Flags : fl.flag2 # instance.sloppyclockflag.flag2 /\ ~fl.flag3},
              {AllFull})

NextTrack == TrackPulse \/ TrackGpos \/ Reconfigure

SpecTrack == InitTime /\ [][NextTrack]_vars

C23_AbortUnreachable ==
    /\ [](~aborted)
    /\ [][out' # <<>> =>
            /\ Len(out') <= AppendedSize
            /\ out'[Len(out') - 1] = 13 /\ out'[Len(out')] = 10
            /\ ~aborted']_vars

\* A line was emitted from a buffer filled to one byte beyond ibuf, the
\* bytes after the line kept
C23_Witness ==
    /\ out # <<>> /\ ~aborted
    /\ ssize > 0
    /\ Len(out) + ssize = IBUFSIZE + 1

\* C24: a javad_control that finds the CLK_FLAG2 bit unchanged leaves gweek,
\* gpos_gweek, gpos_sweek, lastsweek, timecode, ssize and the buffered bytes
\* as they were and writes no command; of the instance only the stored
\* fudge flags, the limit, the capture edge and the PPS mode may change.
C24_ControlFrame ==
    [][(/\ alloc = "live" /\ sret'.op = "javad_control"
        /\ pp'.sloppyclockflag.flag2 = instance.sloppyclockflag.flag2) =>
         /\ UNCHANGED <<gweek, gpos_gweek, gpos_sweek, lastsweek, timecode>>
         /\ UNCHANGED <<ssize, ibuf>>
         /\ UNCHANGED <<written, alloc, kern>>
         /\ sret'.cfg = -1
         /\ instance' = [instance EXCEPT
                           !.sloppyclockflag = instance'.sloppyclockflag,
                           !.limit = instance'.limit,
                           !.assert = instance'.assert,
                           !.mode = instance'.mode]
         /\ instance'.sloppyclockflag = pp'.sloppyclockflag
         /\ pp'.lastrec = pp.lastrec /\ pp'.unitptr = pp.unitptr
         /\ pp'.io_fd = pp.io_fd]_vars

\* A javad_control that changed the capture edge and the limit while a week,
\* a pulse second and a buffered byte were held
C24_Witness ==
    /\ sret.op = "javad_control" /\ sret.cfg = -1
    /\ instance.assert = 0 /\ instance.limit = 1
    /\ gweek = 2190 /\ lastsweek = 10 /\ gpos_gweek = 2190
    /\ ssize = 1 /\ ibuf[0] = Letter
    /\ Len(written) = 3

====
